---------------------------- MODULE Spec2Model ----------------------------
(***************************************************************************)
(* A model of the myskoxe card decoder:                                    *)
(*   - src/myskoxe/parse/fortran_format.py: field descriptors, deferred    *)
(*     count resolution, line reflow and card decoding;                    *)
(*   - src/myskoxe/parse/parse_matxs.py: FFDataRecord.read_records and the *)
(*     MATXSFile card stream assembler.                                    *)
(*                                                                         *)
(* A format string is a sequence of one-character strings, so that the     *)
(* regular expressions of the source (^\d+, \d+$) and the f-string         *)
(* prefixing of a count act on it as they do in the source.                *)
(***************************************************************************)
EXTENDS Integers, Sequences, FiniteSets, TLC

(***************************************************************************)
(* Program constants.                                                      *)
(***************************************************************************)
MAX_LINE_LENGTH == 72

\* LINE_LENGTH of parse_matxs.py
LINE_LENGTH == 72

(***************************************************************************)
(* Bounds of the model.                                                    *)
(***************************************************************************)
\* largest value count stored in the result store (npart, an entry of ngrp)
MaxCount == 2
\* largest number of repetitions of a repeated card (length of ngrp)
MaxReps == 2
\* largest number of fields a card declares after its title field
MaxFields == 2
\* longest period of the enumerated card texts
MaxPeriod == 2
\* the rows of a table group
MaxRows == 2
\* the records one read_records call is given
MaxFFRecords == 3
\* the cards of a MATXS card stream
MaxCards == 5
MaxLines == 3
MaxBlockCards == 3
MaxCalls == 3

(***************************************************************************)
(* Strings as character sequences.                                         *)
(***************************************************************************)
Digits == <<"0", "1", "2", "3", "4", "5", "6", "7", "8", "9">>

DigitSet == {"0", "1", "2", "3", "4", "5", "6", "7", "8", "9"}

IsDigit(c) == c \in DigitSet

DigitVal(c) == (CHOOSE i \in 1..10 : Digits[i] = c) - 1

\* int(s) for a string of digits
RECURSIVE StrToInt(_)
StrToInt(s) ==
    IF s = <<>> THEN 0
    ELSE 10 * StrToInt(SubSeq(s, 1, Len(s) - 1)) + DigitVal(s[Len(s)])

\* f"{n}" for an integer n >= 0
RECURSIVE IntToStr(_)
IntToStr(n) ==
    IF n < 10 THEN <<Digits[n + 1]>>
    ELSE IntToStr(n \div 10) \o <<Digits[(n % 10) + 1]>>

\* length of the longest prefix of digits: the match of ^\d+ (0: no match)
RECURSIVE LeadingDigits(_)
LeadingDigits(s) ==
    IF s = <<>> \/ ~IsDigit(s[1]) THEN 0 ELSE 1 + LeadingDigits(Tail(s))

\* length of the longest suffix of digits: the match of \d+$ (0: no match)
RECURSIVE TrailingDigits(_)
TrailingDigits(s) ==
    IF s = <<>> \/ ~IsDigit(s[Len(s)]) THEN 0
    ELSE 1 + TrailingDigits(SubSeq(s, 1, Len(s) - 1))

\* re.sub(r"^\d+", "", s)
StripLeadingDigits(s) == SubSeq(s, LeadingDigits(s) + 1, Len(s))

(***************************************************************************)
(* RecordType and FortranFormatCardRecord.  A key of None is NoneKey; a    *)
(* get_n_values_from of None is the empty tuple (both are falsy).          *)
(***************************************************************************)
SCALAR == "SCALAR"
ARRAY == "ARRAY"
NEWLINE == "NEWLINE"
EMPTY == "EMPTY"

NoneKey == "None"
NoFrom == <<>>

FortranFormatCardRecord(k, f, t, from) ==
    [key |-> k, format |-> f, type |-> t, get_n_values_from |-> from]

\* the value of an operation that raised
Raised == -1

\* int(integer_match.group()) or 1
n_values_or_1(n) == IF n = 0 THEN 1 ELSE n

\* FortranFormatCardRecord.get_n_values; Raised for a ValueError
get_n_values(record) ==
    CASE record.type = SCALAR -> 1
      [] record.type \in {ARRAY, EMPTY} ->
            IF LeadingDigits(record.format) = 0 THEN Raised
            ELSE n_values_or_1(
                    StrToInt(SubSeq(record.format, 1, LeadingDigits(record.format))))
      [] record.type = NEWLINE -> 0
      [] OTHER -> Raised

\* FortranFormatCardRecord.get_chars_per_value; Raised for a ValueError
get_chars_per_value(record) ==
    LET f == record.format
        t == TrailingDigits(f)
        v == StrToInt(SubSeq(f, Len(f) - t + 1, Len(f)))
    IN  CASE record.type \in {SCALAR, ARRAY} -> IF t = 0 THEN Raised ELSE v
          [] record.type = EMPTY -> IF t = 0 THEN 1 ELSE v
          [] record.type = NEWLINE -> 0
          [] OTHER -> Raised

(***************************************************************************)
(* FortranFormatBaseCard.  A step that can raise returns [err, records]:   *)
(* err names the exception ("" for none) and records is self.records as    *)
(* the step leaves it, partial in-place updates included.                  *)
(***************************************************************************)
NoErr == ""

Outcome(e, recs) == [err |-> e, records |-> recs]

\* the checks of FortranFormatBaseCard.__post_init__ on the records
BaseCardPostInitOk(records) ==
    \A i \in 1..Len(records) :
        /\ records[i].type = NEWLINE => records[i].format = <<"/">>
        /\ ~(records[i].get_n_values_from # NoFrom
              /\ LeadingDigits(records[i].format) > 0)

\* set_reader: TRUE when it does not raise
set_reader_ok(records) ==
    \A i \in 1..Len(records) :
        ~(records[i].get_n_values_from # NoFrom /\ records[i].type # ARRAY)

\* previous_results[card_key][record_key] exists
HasResult(previous_results, from) ==
    /\ from[1] \in DOMAIN previous_results
    /\ from[2] \in DOMAIN previous_results[from[1]]

\* record.format = f"{n_values}{record.format}"; record.get_n_values_from = None
ResolvedRecord(record, n_values) ==
    [record EXCEPT !.format = IntToStr(n_values) \o @,
                   !.get_n_values_from = NoFrom]

\* the resolution loop taking a count of 1 for a reference the store lacks
RECURSIVE ResolveBasicDefaultsToOne(_, _, _)
ResolveBasicDefaultsToOne(records, i, previous_results) ==
    IF i > Len(records) THEN Outcome(NoErr, records)
    ELSE IF records[i].get_n_values_from = NoFrom
         THEN ResolveBasicDefaultsToOne(records, i + 1, previous_results)
    ELSE LET from == records[i].get_n_values_from
             n_values == IF HasResult(previous_results, from)
                         THEN previous_results[from[1]][from[2]]
                         ELSE 1
         IN  ResolveBasicDefaultsToOne(
                [records EXCEPT ![i] = ResolvedRecord(records[i], n_values)],
                i + 1, previous_results)

\* the resolution loop of FortranFormatBasicCard._prepare_for_parse_card
RECURSIVE ResolveBasic(_, _, _)
ResolveBasic(records, i, previous_results) ==
    IF i > Len(records) THEN Outcome(NoErr, records)
    ELSE IF records[i].get_n_values_from = NoFrom
         THEN ResolveBasic(records, i + 1, previous_results)
    ELSE IF ~HasResult(previous_results, records[i].get_n_values_from)
         THEN Outcome("KeyError", records)
    ELSE LET from == records[i].get_n_values_from
             n_values == previous_results[from[1]][from[2]]
         IN  ResolveBasic(
                [records EXCEPT ![i] = ResolvedRecord(records[i], n_values)],
                i + 1, previous_results)

\* FortranFormatCardRecord(key=None, format="/", type=RecordType.NEWLINE)
NewlineRecord == FortranFormatCardRecord(NoneKey, <<"/">>, NEWLINE, NoFrom)

\* UnitRecord without the re.sub that removes the count
UnitRecordKeepsCount(record) ==
    FortranFormatCardRecord(record.key, <<"1">> \o record.format,
                            record.type, NoFrom)

\* one unit of an exploded record that does not carry the record's key
UnitRecordDropsKey(record) ==
    FortranFormatCardRecord(NoneKey,
                            <<"1">> \o StripLeadingDigits(record.format),
                            record.type, NoFrom)

\* one unit of an exploded record: format "1" + the format without its count
UnitRecord(record) ==
    FortranFormatCardRecord(record.key,
                            <<"1">> \o StripLeadingDigits(record.format),
                            record.type, NoFrom)

\* the comparison that decides whether a unit starts a new line
LineFull(char_counter, record_chars_per_value) ==
    char_counter + record_chars_per_value > MAX_LINE_LENGTH

\* the inner loop: `for i in range(record_n_values)`; returns
\* <<char_counter, new_records>>
RECURSIVE Explode(_, _, _, _, _)
Explode(record, todo, record_chars_per_value, char_counter, new_records) ==
    IF todo = 0 THEN <<char_counter, new_records>>
    ELSE LET brk == LineFull(char_counter, record_chars_per_value)
             cc == IF brk THEN 0 ELSE char_counter
             nr == IF brk THEN Append(new_records, NewlineRecord)
                   ELSE new_records
         IN  Explode(record, todo - 1, record_chars_per_value,
                     cc + record_chars_per_value,
                     Append(nr, UnitRecord(record)))

\* the reflow loop shared by both _prepare_for_parse_card methods; on a
\* ValueError self.records is still the list the loop was started with
RECURSIVE ReflowLoop(_, _, _, _)
ReflowLoop(records, i, char_counter, new_records) ==
    IF i > Len(records) THEN Outcome(NoErr, new_records)
    ELSE LET record == records[i]
             record_n_values == get_n_values(record)
             record_chars_per_value == get_chars_per_value(record)
             chars_for_record == record_n_values * record_chars_per_value
         IN  IF record.type = NEWLINE
             THEN ReflowLoop(records, i + 1, 0, Append(new_records, record))
             ELSE IF record_n_values = Raised \/ record_chars_per_value = Raised
             THEN Outcome("ValueError", records)
             ELSE IF char_counter + chars_for_record <= MAX_LINE_LENGTH
             THEN ReflowLoop(records, i + 1, char_counter + chars_for_record,
                             Append(new_records, record))
             ELSE LET ex == Explode(record, record_n_values,
                                    record_chars_per_value, char_counter,
                                    new_records)
                  IN  ReflowLoop(records, i + 1, ex[1], ex[2])

Reflow(records) == ReflowLoop(records, 1, 0, <<>>)

\* FortranFormatBasicCard._prepare_for_parse_card
BasicPrepare(records, previous_results) ==
    LET resolved == ResolveBasic(records, 1, previous_results)
    IN  IF resolved.err # NoErr THEN resolved
        ELSE IF ~set_reader_ok(resolved.records)
             THEN Outcome("ValueError", resolved.records)
        ELSE Reflow(resolved.records)

(***************************************************************************)
(* FortranFormatMultipleBasicCard._prepare_for_parse_card.                 *)
(***************************************************************************)
HasKey(records, k) == \E i \in 1..Len(records) : records[i].key = k

\* the per-repetition value record of repetition card_idx
ValueRecord(record, n_values_list, card_idx) ==
    FortranFormatCardRecord(record.key,
                            IntToStr(n_values_list[card_idx]) \o record.format,
                            record.type, NoFrom)

\* the loop that builds new_records_lists; returns [err, lists]
RECURSIVE BuildRecordsLists(_, _, _, _, _, _)
BuildRecordsLists(records, i, lists, n_values_list, for_cards, for_values) ==
    IF i > Len(records) THEN [err |-> NoErr, lists |-> lists]
    ELSE LET record == records[i]
             K == Len(n_values_list)
         IN  IF record.key = for_cards
             THEN \* card_idx = 0 needs an empty list of lists
                  IF K > 0 /\ Len(lists) # 0
                  THEN [err |-> "AssertionError", lists |-> lists]
                  ELSE BuildRecordsLists(records, i + 1,
                          lists \o [j \in 1..K |-> <<record>>],
                          n_values_list, for_cards, for_values)
             ELSE IF record.key = for_values /\ LeadingDigits(record.format) > 0
             THEN [err |-> "ValueError", lists |-> lists]
             ELSE IF K > 0 /\ Len(lists) = 0
             THEN [err |-> "IndexError", lists |-> lists]
             ELSE IF K = 0
             THEN BuildRecordsLists(records, i + 1, lists, n_values_list,
                                    for_cards, for_values)
             ELSE IF record.key = for_values
             THEN BuildRecordsLists(records, i + 1,
                     [j \in 1..Len(lists) |->
                         Append(lists[j], ValueRecord(record, n_values_list, j))],
                     n_values_list, for_cards, for_values)
             ELSE BuildRecordsLists(records, i + 1,
                     [j \in 1..Len(lists) |-> Append(lists[j], record)],
                     n_values_list, for_cards, for_values)

\* (variant) a newline record after every list, the last included
AddNewlinesAfterEach(lists) ==
    [j \in 1..Len(lists) |-> Append(lists[j], NewlineRecord)]

\* a newline record after every list but the last
AddNewlines(lists) ==
    [j \in 1..Len(lists) |->
        IF j < Len(lists) THEN Append(lists[j], NewlineRecord) ELSE lists[j]]

\* [record for sublist in new_records_lists for record in sublist]
RECURSIVE Flatten(_)
Flatten(lists) ==
    IF lists = <<>> THEN <<>> ELSE Head(lists) \o Flatten(Tail(lists))

\* the resolution loop of the repeated card, which also refuses a format
\* that starts with an integer
RECURSIVE ResolveMultiple(_, _, _)
ResolveMultiple(records, i, previous_results) ==
    IF i > Len(records) THEN Outcome(NoErr, records)
    ELSE IF records[i].get_n_values_from = NoFrom
         THEN ResolveMultiple(records, i + 1, previous_results)
    ELSE IF LeadingDigits(records[i].format) > 0
         THEN Outcome("ValueError", records)
    ELSE IF ~HasResult(previous_results, records[i].get_n_values_from)
         THEN Outcome("KeyError", records)
    ELSE LET from == records[i].get_n_values_from
             n_values == previous_results[from[1]][from[2]]
         IN  ResolveMultiple(
                [records EXCEPT ![i] = ResolvedRecord(records[i], n_values)],
                i + 1, previous_results)

\* lines 256-302: the repetitions laid out, before resolution and reflow;
\* returns [err, records, n_values_list]
MultipleExpand(records, n_values_list_old, previous_results, from, for_cards, for_values) ==
    IF ~HasResult(previous_results, from)
    THEN [err |-> "KeyError", records |-> records,
          n_values_list |-> n_values_list_old]
    ELSE LET nvl == previous_results[from[1]][from[2]]
             built == BuildRecordsLists(records, 1, <<>>, nvl,
                                        for_cards, for_values)
         IN  IF ~HasKey(records, for_cards) \/ ~HasKey(records, for_values)
             THEN [err |-> "ValueError", records |-> records,
                   n_values_list |-> nvl]
             ELSE IF built.err # NoErr
             THEN [err |-> built.err, records |-> records,
                   n_values_list |-> nvl]
             ELSE [err |-> NoErr,
                   records |-> Flatten(AddNewlines(built.lists)),
                   n_values_list |-> nvl]

\* FortranFormatMultipleBasicCard._prepare_for_parse_card
MultiplePrepare(records, n_values_list_old, previous_results, from, for_cards, for_values) ==
    LET expanded == MultipleExpand(records, n_values_list_old,
                                   previous_results, from, for_cards, for_values)
        resolved == ResolveMultiple(expanded.records, 1, previous_results)
        reflowed == Reflow(resolved.records)
    IN  IF expanded.err # NoErr THEN expanded
        ELSE IF resolved.err # NoErr
             THEN [err |-> resolved.err, records |-> resolved.records,
                   n_values_list |-> expanded.n_values_list]
        ELSE IF ~set_reader_ok(resolved.records)
             THEN [err |-> "ValueError", records |-> resolved.records,
                   n_values_list |-> expanded.n_values_list]
        ELSE [err |-> reflowed.err, records |-> reflowed.records,
              n_values_list |-> expanded.n_values_list]

(***************************************************************************)
(* The reader, ff.FortranRecordReader(self._format).read(card_data).  The  *)
(* format is the records' formats joined by commas; the reader returns one *)
(* value per repetition of a data edit descriptor (A, I, E) and none for   *)
(* X and /.  The text of a card is abstracted to the values its fields     *)
(* hold, in order: text [period, offset] holds at field i (from 1) the     *)
(* value ((i - 1 + offset) mod period) + 1.                                *)
(***************************************************************************)
DataLetters == {"A", "I", "E"}

\* the number of values the reader returns for one record's format
FormatNValues(format) ==
    LET d == LeadingDigits(format)
        body == StripLeadingDigits(format)
        repeat == IF d = 0 THEN 1 ELSE StrToInt(SubSeq(format, 1, d))
    IN  IF body # <<>> /\ body[1] \in DataLetters THEN repeat ELSE 0

RECURSIVE ReaderNValues(_)
ReaderNValues(records) ==
    IF records = <<>> THEN 0
    ELSE FormatNValues(Head(records).format) + ReaderNValues(Tail(records))

TextValue(card_data, i) == ((i - 1 + card_data.offset) % card_data.period) + 1

\* self._reader.read(card_data)
ReaderRead(records, card_data) ==
    [i \in 1..ReaderNValues(records) |-> TextValue(card_data, i)]

(***************************************************************************)
(* parse_card.  A decoded value is [list, vals]: a scalar (list = FALSE,   *)
(* vals of length 1) or a list slice of the parsed values.  A result is a  *)
(* function from keys to decoded values.                                   *)
(***************************************************************************)
ScalarValue(v) == [list |-> FALSE, vals |-> <<v>>]
ListValue(s) == [list |-> TRUE, vals |-> s]

EmptyDict == <<>>

\* result[k] = v
Put(result, k, v) ==
    [x \in (DOMAIN result) \cup {k} |-> IF x = k THEN v ELSE result[x]]

\* the value parse_card stores for a record of n_values values at counter
DecodedValue(record, n_values, parsed_card, counter) ==
    IF n_values = 1 /\ record.type = SCALAR
    THEN ScalarValue(parsed_card[counter + 1])
    ELSE ListValue(SubSeq(parsed_card, counter + 1, counter + n_values))

\* (variant) a count check that accepts values left over
CountOkAtMost(counter, parsed_card) == counter <= Len(parsed_card)

\* assert counter == len(parsed_card)
CountOk(counter, parsed_card) == counter = Len(parsed_card)

\* (variant) an expected_records check that looks at the keys only
ExpectedOkKeysOnly(result, expected_records) ==
    \A key \in DOMAIN expected_records : key \in DOMAIN result

\* the expected_records check on one result: TRUE when nothing is raised
ExpectedOk(result, expected_records) ==
    \A key \in DOMAIN expected_records :
        key \in DOMAIN result /\ result[key] = expected_records[key]

\* the loop of FortranFormatBasicCard.parse_card; returns [err, result, counter]
RECURSIVE BasicParseLoop(_, _, _, _, _)
BasicParseLoop(records, i, counter, parsed_card, result) ==
    IF i > Len(records)
    THEN [err |-> NoErr, result |-> result, counter |-> counter]
    ELSE LET record == records[i]
             n_values == get_n_values(record)
         IN  IF record.type \in {NEWLINE, EMPTY}
             THEN BasicParseLoop(records, i + 1, counter, parsed_card, result)
             ELSE IF n_values = Raised
             THEN [err |-> "ValueError", result |-> result, counter |-> counter]
             ELSE IF ~(counter + n_values <= Len(parsed_card))
             THEN [err |-> "AssertionError", result |-> result,
                   counter |-> counter]
             ELSE BasicParseLoop(records, i + 1, counter + n_values, parsed_card,
                     Put(result, record.key,
                         DecodedValue(record, n_values, parsed_card, counter)))

\* FortranFormatBasicCard.parse_card on the values the reader returned
BasicParse(records, expected_records, parsed_card) ==
    LET walked == BasicParseLoop(records, 1, 0, parsed_card, EmptyDict)
    IN  IF walked.err # NoErr THEN [err |-> walked.err, result |-> EmptyDict]
        ELSE IF ~CountOk(walked.counter, parsed_card)
             THEN [err |-> "AssertionError", result |-> EmptyDict]
        ELSE IF ~ExpectedOk(walked.result, expected_records)
             THEN [err |-> "ValueError", result |-> EmptyDict]
        ELSE [err |-> NoErr, result |-> walked.result]

\* the loop of FortranFormatMultipleBasicCard.parse_card; `result` is the
\* last mapping of all_results; returns [err, all_results, counter]
RECURSIVE MultipleParseLoop(_, _, _, _, _, _)
MultipleParseLoop(records, i, counter, parsed_card, all_results, for_cards) ==
    IF i > Len(records)
    THEN [err |-> NoErr, all_results |-> all_results, counter |-> counter]
    ELSE LET record == records[i]
             n_values == get_n_values(record)
             started == IF record.key = for_cards
                        THEN Append(all_results, EmptyDict) ELSE all_results
             last == Len(started)
         IN  IF record.type \in {NEWLINE, EMPTY}
             THEN MultipleParseLoop(records, i + 1, counter, parsed_card,
                                    all_results, for_cards)
             ELSE IF started = <<>>
             THEN [err |-> "ValueError", all_results |-> all_results,
                   counter |-> counter]
             ELSE IF n_values = Raised
             THEN [err |-> "ValueError", all_results |-> started,
                   counter |-> counter]
             ELSE IF ~(counter + n_values <= Len(parsed_card))
             THEN [err |-> "AssertionError", all_results |-> started,
                   counter |-> counter]
             ELSE MultipleParseLoop(records, i + 1, counter + n_values,
                     parsed_card,
                     [started EXCEPT ![last] =
                         Put(@, record.key,
                             DecodedValue(record, n_values, parsed_card, counter))],
                     for_cards)

\* FortranFormatMultipleBasicCard.parse_card on the values the reader returned
MultipleParse(records, expected_records, parsed_card, for_cards) ==
    LET walked == MultipleParseLoop(records, 1, 0, parsed_card, <<>>, for_cards)
    IN  IF walked.err # NoErr THEN [err |-> walked.err, all_results |-> <<>>]
        ELSE IF ~CountOk(walked.counter, parsed_card)
             THEN [err |-> "AssertionError", all_results |-> <<>>]
        ELSE IF \E r \in 1..Len(walked.all_results) :
                    ~ExpectedOk(walked.all_results[r], expected_records)
             THEN [err |-> "ValueError", all_results |-> <<>>]
        ELSE [err |-> NoErr, all_results |-> walked.all_results]


(***************************************************************************)
(* FFDataRecord (parse_matxs.py).  A table_rows of None is NoRows.         *)
(***************************************************************************)
TABLE == "TABLE"
DECIMAL_SHIFT == "DECIMAL_SHIFT"

NoRows == 0 - 1

FFDataRecord(k, c, kd, t, rows) ==
    [key |-> k, count |-> c, kind |-> kd, type |-> t, table_rows |-> rows]

\* the assertions of FFDataRecord.__post_init__
FFDataRecordPostInitOk(record) ==
    /\ record.type = EMPTY => record.kind = <<"X">>
    /\ record.type = SCALAR => record.count = 1
    /\ record.type = DECIMAL_SHIFT => record.kind = <<"P">>
    /\ IF record.type = TABLE
       THEN record.table_rows # NoRows /\ record.count = 1
       ELSE record.table_rows = NoRows
    /\ LeadingDigits(record.kind) = 0

\* table_record_indicies
TableRecordIndices(recs) == {i \in 1..Len(recs) : recs[i].type = TABLE}

\* the test that decides whether the TABLE records are expanded
TablesToExpand(recs) == Cardinality(TableRecordIndices(recs)) > 1

\* the TABLE records follow one another in the list
TablesClumped(recs) ==
    \A i \in TableRecordIndices(recs) :
        i + 1 \in TableRecordIndices(recs)
            \/ \A j \in TableRecordIndices(recs) : j <= i

FirstTable(recs) ==
    CHOOSE i \in TableRecordIndices(recs) :
        \A j \in TableRecordIndices(recs) : i <= j

\* all TABLE records have the table_rows of the first
TablesSameRows(recs) ==
    \A i \in TableRecordIndices(recs) :
        recs[i].table_rows = recs[FirstTable(recs)].table_rows

\* the TABLE records of the list, in order
RECURSIVE TableRun(_)
TableRun(recs) ==
    IF recs = <<>> THEN <<>>
    ELSE (IF Head(recs).type = TABLE THEN <<Head(recs)>> ELSE <<>>)
         \o TableRun(Tail(recs))

\* table_record_indicies * table_rows: the run repeated
RECURSIVE Repeat(_, _)
Repeat(run, times) ==
    IF times <= 0 THEN <<>> ELSE run \o Repeat(run, times - 1)

\* new_records: the run repeated in the place of the first TABLE record, the
\* other TABLE records dropped
RECURSIVE ExpandTables(_, _, _)
ExpandTables(recs, i, all) ==
    IF i > Len(recs) THEN <<>>
    ELSE (IF i = FirstTable(all)
          THEN Repeat(TableRun(all), all[FirstTable(all)].table_rows)
          ELSE IF all[i].type = TABLE THEN <<>>
          ELSE <<all[i]>>)
         \o ExpandTables(recs, i + 1, all)

\* the records read_records decodes with: [err, records]
ExpandedRecords(recs) ==
    IF ~TablesToExpand(recs) THEN Outcome(NoErr, recs)
    ELSE IF ~TablesClumped(recs) \/ ~TablesSameRows(recs)
         THEN Outcome("AssertionError", recs)
    ELSE Outcome(NoErr, ExpandTables(recs, 1, recs))

\* f"{record.count}{record.kind}"
FFFormat(record) == IntToStr(record.count) \o record.kind

\* the values ff.FortranRecordReader(format_str).read(data) returns
RECURSIVE FFReaderNValues(_)
FFReaderNValues(recs) ==
    IF recs = <<>> THEN 0
    ELSE FormatNValues(FFFormat(Head(recs))) + FFReaderNValues(Tail(recs))

FFReaderRead(recs, data) ==
    [i \in 1..FFReaderNValues(recs) |-> TextValue(data, i)]

\* sum(record.count for the records that are not EMPTY or DECIMAL_SHIFT)
RECURSIVE FFDeclaredCount(_)
FFDeclaredCount(recs) ==
    IF recs = <<>> THEN 0
    ELSE (IF Head(recs).type \in {EMPTY, DECIMAL_SHIFT} THEN 0
          ELSE Head(recs).count)
         + FFDeclaredCount(Tail(recs))

\* assert len(parsed_card) == sum(...)
FFCountOk(parsed, recs) == Len(parsed) = FFDeclaredCount(recs)

\* results[record.key].append(parsed_card[counter])
AppendRow(results, k, v) ==
    Put(results, k,
        IF k \in DOMAIN results
        THEN ListValue(Append(results[k].vals, v))
        ELSE ListValue(<<v>>))

\* the decoding loop of read_records: [err, results, counter]
RECURSIVE FFReadLoop(_, _, _, _, _)
FFReadLoop(recs, i, counter, parsed, results) ==
    IF i > Len(recs)
    THEN [err |-> NoErr, results |-> results, counter |-> counter]
    ELSE LET record == recs[i]
         IN  IF record.type \in {EMPTY, DECIMAL_SHIFT}
             THEN FFReadLoop(recs, i + 1, counter, parsed, results)
             ELSE IF ~(counter + record.count <= Len(parsed))
             THEN [err |-> "AssertionError", results |-> results,
                   counter |-> counter]
             ELSE IF record.type = SCALAR
             THEN FFReadLoop(recs, i + 1, counter + record.count, parsed,
                     Put(results, record.key, ScalarValue(parsed[counter + 1])))
             ELSE IF record.type = ARRAY
             THEN FFReadLoop(recs, i + 1, counter + record.count, parsed,
                     Put(results, record.key,
                         ListValue(SubSeq(parsed, counter + 1,
                                          counter + record.count))))
             ELSE IF record.type = TABLE
             THEN FFReadLoop(recs, i + 1, counter + record.count, parsed,
                     AppendRow(results, record.key, parsed[counter + 1]))
             ELSE [err |-> "ValueError", results |-> results,
                   counter |-> counter]

\* FFDataRecord.read_records: [err, records, parsed_card, results]
read_records(data, recs) ==
    LET expanded == ExpandedRecords(recs)
        parsed == FFReaderRead(expanded.records, data)
        walked == FFReadLoop(expanded.records, 1, 0, parsed, EmptyDict)
        failed(e, p) == [err |-> e, records |-> expanded.records,
                         parsed_card |-> p, results |-> EmptyDict]
    IN  IF expanded.err # NoErr THEN failed(expanded.err, <<>>)
        ELSE IF ~FFCountOk(parsed, expanded.records)
             THEN failed("AssertionError", parsed)
        ELSE IF walked.err # NoErr THEN failed(walked.err, parsed)
        ELSE IF walked.counter # Len(parsed)
             THEN failed("AssertionError", parsed)
        ELSE [err |-> NoErr, records |-> expanded.records,
              parsed_card |-> parsed, results |-> walked.results]

(***************************************************************************)
(* The sections of a MATXS file (parse_matxs.py): the records each         *)
(* consume_container hands to read_records.                                *)
(***************************************************************************)
A4 == <<"A", "4">>
A6 == <<"A", "6">>
A8 == <<"A", "8">>
A30 == <<"A", "3", "0">>
I6 == <<"I", "6">>
E12_5 == <<"E", "1", "2", ".", "5">>
X == <<"X">>
P == <<"P">>

FileIdentificationRecords ==
    << FFDataRecord("title", 1, A4, SCALAR, NoRows),
       FFDataRecord("hname", 1, A8, SCALAR, NoRows),
       FFDataRecord("sep1", 1, X, EMPTY, NoRows),
       FFDataRecord("huse", 2, A8, ARRAY, NoRows),
       FFDataRecord("sep2", 1, X, EMPTY, NoRows),
       FFDataRecord("ivers", 1, I6, SCALAR, NoRows) >>

FileControlRecords ==
    << FFDataRecord("title", 1, A6, SCALAR, NoRows),
       FFDataRecord("npart", 1, I6, SCALAR, NoRows),
       FFDataRecord("ntype", 1, I6, SCALAR, NoRows),
       FFDataRecord("nholl", 1, I6, SCALAR, NoRows),
       FFDataRecord("nmat", 1, I6, SCALAR, NoRows),
       FFDataRecord("maxw", 1, I6, SCALAR, NoRows),
       FFDataRecord("length", 1, I6, SCALAR, NoRows) >>

SetHollerithIdentificationRecords ==
    << FFDataRecord("title", 1, A4, SCALAR, NoRows),
       FFDataRecord("hsetid", 9, A8, ARRAY, NoRows) >>

FileDataRecords(npart, ntype, nmat) ==
    << FFDataRecord("title", 1, A4, SCALAR, NoRows),
       FFDataRecord(NoneKey, 4, X, EMPTY, NoRows),
       FFDataRecord("hprt", npart, A8, ARRAY, NoRows),
       FFDataRecord("htype", ntype, A8, ARRAY, NoRows),
       FFDataRecord("hmatn", nmat, A8, ARRAY, NoRows),
       FFDataRecord("ngrp", npart, I6, ARRAY, NoRows),
       FFDataRecord("jinp", ntype, I6, ARRAY, NoRows),
       FFDataRecord("joutp", ntype, I6, ARRAY, NoRows),
       FFDataRecord("nsubm", nmat, I6, ARRAY, NoRows),
       FFDataRecord("locm", nmat, I6, ARRAY, NoRows) >>

GroupStructureRecords(ngr) ==
    << FFDataRecord("title", 1, A4, SCALAR, NoRows),
       FFDataRecord(NoneKey, 8, X, EMPTY, NoRows),
       FFDataRecord(NoneKey, 1, P, DECIMAL_SHIFT, NoRows),
       FFDataRecord("gpb", ngr, E12_5, ARRAY, NoRows),
       FFDataRecord("emin", 1, E12_5, SCALAR, NoRows) >>

MaterialControlRecords(nsubm) ==
    << FFDataRecord("title", 1, A4, SCALAR, NoRows),
       FFDataRecord("hmat", 1, A8, SCALAR, NoRows),
       FFDataRecord(NoneKey, 1, P, DECIMAL_SHIFT, NoRows),
       FFDataRecord("amass", 1, E12_5, SCALAR, NoRows),
       FFDataRecord("temp", 1, E12_5, TABLE, nsubm),
       FFDataRecord("sigz", 1, E12_5, TABLE, nsubm),
       FFDataRecord("itype", 1, I6, TABLE, nsubm),
       FFDataRecord("n1d", 1, I6, TABLE, nsubm),
       FFDataRecord("n2d", 1, I6, TABLE, nsubm),
       FFDataRecord("locs", 1, I6, TABLE, nsubm) >>

LABEL_0v == <<"0", "v">>
LABEL_1d == <<"1", "d">>
LABEL_2d == <<"2", "d">>
LABEL_3d == <<"3", "d">>
LABEL_4d == <<"4", "d">>
LABEL_5d == <<"5", "d">>

\* a section of the document: None, or the node holding the decoded data
NoneNode == [present |-> FALSE, data |-> EmptyDict]
Node(data) == [present |-> TRUE, data |-> data]

\* int(re.match("\d", label).group()): the level of a card is the first
\* digit of its label
CardLevel(label) == DigitVal(label[1])

\* the two asserts every consume_container makes on the card it popped
LabelAndLevelOk(card_label, LABEL, LEVEL) ==
    card_label = LABEL /\ CardLevel(card_label) = LEVEL

\* X.consume_container of a section that needs nothing decoded before it:
\* [err, data]
ConsumeCard(card_label, card_data, LABEL, LEVEL, recs) ==
    LET read == read_records(card_data, recs)
    IN  IF ~LabelAndLevelOk(card_label, LABEL, LEVEL)
        THEN [err |-> "AssertionError", data |-> EmptyDict]
        ELSE [err |-> read.err, data |-> read.results]

\* FileData.consume_container: [err, data]
ConsumeFileDataCard(card_label, card_data, fc) ==
    IF ~LabelAndLevelOk(card_label, LABEL_3d, 3)
    THEN [err |-> "AssertionError", data |-> EmptyDict]
    ELSE IF ~fc.present
    THEN [err |-> "AttributeError", data |-> EmptyDict]
    ELSE ConsumeCard(card_label, card_data, LABEL_3d, 3,
                     FileDataRecords(fc.data["npart"].vals[1],
                                     fc.data["ntype"].vals[1],
                                     fc.data["nmat"].vals[1]))

\* GroupStructure.consume_container taking one group when no file data has
\* been decoded
ConsumeGroupStructureUnguarded(card_label, card_data, fd, particle_idx) ==
    IF ~LabelAndLevelOk(card_label, LABEL_4d, 4)
    THEN [err |-> "AssertionError", data |-> EmptyDict]
    ELSE IF ~fd.present
    THEN ConsumeCard(card_label, card_data, LABEL_4d, 4,
                     GroupStructureRecords(1))
    ELSE IF ~(particle_idx < Len(fd.data["ngrp"].vals))
    THEN [err |-> "IndexError", data |-> EmptyDict]
    ELSE ConsumeCard(card_label, card_data, LABEL_4d, 4,
                     GroupStructureRecords(fd.data["ngrp"].vals[particle_idx + 1]))

\* GroupStructure.consume_container: [err, data]
ConsumeGroupStructure(card_label, card_data, fd, particle_idx) ==
    IF ~LabelAndLevelOk(card_label, LABEL_4d, 4)
    THEN [err |-> "AssertionError", data |-> EmptyDict]
    ELSE IF ~fd.present
    THEN [err |-> "AttributeError", data |-> EmptyDict]
    ELSE IF ~(particle_idx < Len(fd.data["ngrp"].vals))
    THEN [err |-> "IndexError", data |-> EmptyDict]
    ELSE ConsumeCard(card_label, card_data, LABEL_4d, 4,
                     GroupStructureRecords(fd.data["ngrp"].vals[particle_idx + 1]))

\* MaterialControl.consume_container: [err, data]
ConsumeMaterialControl(card_label, card_data, fd, material_idx) ==
    IF ~LabelAndLevelOk(card_label, LABEL_5d, 5)
    THEN [err |-> "AssertionError", data |-> EmptyDict]
    ELSE IF ~fd.present
    THEN [err |-> "AttributeError", data |-> EmptyDict]
    ELSE IF ~(material_idx < Len(fd.data["nsubm"].vals))
    THEN [err |-> "IndexError", data |-> EmptyDict]
    ELSE ConsumeCard(card_label, card_data, LABEL_5d, 5,
                     MaterialControlRecords(fd.data["nsubm"].vals[material_idx + 1]))

(***************************************************************************)
(* The cards, result stores and texts the model enumerates.  The cards are *)
(* those of src/myskoxe/frendy/tests/test_parse.py with the text fields    *)
(* widened so that a line of 72 characters fills with few values: a title  *)
(* field followed by up to MaxFields distinct fields out of Fields.        *)
(***************************************************************************)
TitleRecord == FortranFormatCardRecord("title", A4, SCALAR, NoFrom)

Fields ==
    { FortranFormatCardRecord("hprt", A30, ARRAY, <<"1d", "npart">>),
      FortranFormatCardRecord("hsetid", <<"3">> \o A30, ARRAY, NoFrom),
      FortranFormatCardRecord("gpb", E12_5, ARRAY, NoFrom),
      FortranFormatCardRecord(NoneKey, <<"8", "X">>, EMPTY, NoFrom),
      FortranFormatCardRecord("sep1", <<"1", "A", "1">>, EMPTY, NoFrom),
      FortranFormatCardRecord(NoneKey, <<"/">>, NEWLINE, NoFrom) }

\* sequences of at most n distinct members of S
RECURSIVE DistinctSeqs(_, _)
DistinctSeqs(S, n) ==
    IF n = 0 THEN {<<>>}
    ELSE LET shorter == DistinctSeqs(S, n - 1)
             longest == {t \in shorter : Len(t) = n - 1}
         IN  shorter \cup
             UNION { { Append(q, x) : x \in S \ {q[i] : i \in 1..Len(q)} } :
                     q \in longest }

DeclaredRecords == { <<TitleRecord>> \o q : q \in DistinctSeqs(Fields, MaxFields) }

\* the constructor arguments of the repeated card of the tests
repeated_record_for_cards == "title"
repeated_record_for_values == "gpb"
get_n_cards_and_values_from == <<"3d", "ngrp">>

\* expected_records: None (no check), or literals for the title and for the
\* field gpb, which not every card declares
TitleLiteral == ScalarValue(1)
GpbLiteral == ListValue(<<1>>)
ExpectedChoices == { EmptyDict, [title |-> TitleLiteral, gpb |-> GpbLiteral] }

\* sequences over 1..MaxCount of length at most n
RECURSIVE CountLists(_)
CountLists(n) ==
    IF n = 0 THEN {<<>>}
    ELSE CountLists(n - 1) \cup
         { Append(q, c) : q \in {t \in CountLists(n - 1) : Len(t) = n - 1},
                          c \in 1..MaxCount }

\* a result store after cards 1d and 3d: ngrp holds one count per particle
Store(ngrp) == [c \in {"1d", "3d"} |->
                  IF c = "1d" THEN [k \in {"npart"} |-> Len(ngrp)]
                  ELSE [k \in {"ngrp"} |-> ngrp]]

EmptyStore == <<>>

\* the stores a repeated card is prepared with: every ngrp
MultipleStores == { Store(l) : l \in CountLists(MaxReps) } \cup {EmptyStore}

\* the stores a basic card is prepared with: every npart (a basic card reads
\* no list)
BasicStores ==
    { Store([i \in 1..n |-> 1]) : n \in 0..MaxCount } \cup {EmptyStore}

\* the card texts: every period up to MaxPeriod, at offsets 0 and 1 where
\* the two differ
Texts ==
    { [period |-> p, offset |-> o] : p \in 1..MaxPeriod, o \in 0..1 }
        \ { [period |-> 1, offset |-> 1] }


\* the records read_records is called with: up to MaxFFRecords distinct
\* records out of these, the TABLE records with table_rows rows
FFFields(rows) ==
    { FFDataRecord("title", 1, A4, SCALAR, NoRows),
      FFDataRecord(NoneKey, 1, P, DECIMAL_SHIFT, NoRows),
      FFDataRecord("huse", 2, A8, ARRAY, NoRows),
      FFDataRecord("skip", 2, X, ARRAY, NoRows),
      FFDataRecord("temp", 1, E12_5, TABLE, rows),
      FFDataRecord("sigz", 1, E12_5, TABLE, rows),
      FFDataRecord("itype", 1, I6, TABLE, MaxRows) }

FFRecordLists ==
    UNION { DistinctSeqs(FFFields(rows), MaxFFRecords) : rows \in 1..MaxRows }

\* the texts of the cards of a MATXS file: every field 1, or 1, 2, 1, 2, ...
UniformText == [period |-> 1, offset |-> 0]
AlternatingText == [period |-> 2, offset |-> 0]
CardTexts == {UniformText, AlternatingText}

\* the labels of the cards of a stream: the six the assembler consumes and
\* two it does not
LABEL_6d == <<"6", "d">>
LABEL_10d == <<"1", "0", "d">>
Labels == {LABEL_0v, LABEL_1d, LABEL_2d, LABEL_3d, LABEL_4d, LABEL_5d,
           LABEL_6d, LABEL_10d}


(***************************************************************************)
(* CardContainer (parse_matxs.py).  A line is the four characters it       *)
(* starts with, which is all the label pattern reads, and its length.      *)
(***************************************************************************)
Line(head, n) == [head |-> head, len |-> n]

\* p = re.compile("^ 0v |^[ 1-9][0-9]d "): the text the pattern matches at
\* the start of the line, <<>> when it does not match
LabelMatch(line) ==
    LET h == line.head
    IN  IF Len(h) < 4 THEN <<>>
        ELSE IF SubSeq(h, 1, 4) = <<" ", "0", "v", " ">> THEN SubSeq(h, 1, 4)
        ELSE IF /\ h[1] \in ({" "} \cup (DigitSet \ {"0"}))
                /\ IsDigit(h[2])
                /\ h[3] = "d"
                /\ h[4] = " "
             THEN SubSeq(h, 1, 4)
        ELSE <<>>

\* str.strip() of the blanks at both ends
RECURSIVE Strip(_)
Strip(s) ==
    IF s = <<>> THEN <<>>
    ELSE IF Head(s) = " " THEN Strip(Tail(s))
    ELSE IF s[Len(s)] = " " THEN Strip(SubSeq(s, 1, Len(s) - 1))
    ELSE s

\* matches: the indices (from 0) of the lines the pattern matches, in order
RECURSIVE Matches(_, _)
Matches(ls, line_idx) ==
    IF line_idx >= Len(ls) THEN <<>>
    ELSE (IF LabelMatch(ls[line_idx + 1]) # <<>> THEN <<line_idx>> ELSE <<>>)
         \o Matches(ls, line_idx + 1)

\* BaseCard: data is "".join(lines[start_idx:stop_idx]), kept as the lines
\* joined
BaseCard(label, level, data, start_idx, stop_idx) ==
    [label |-> label, level |-> level, data |-> data,
     start_idx |-> start_idx, stop_idx |-> stop_idx]

\* _populate_cards with every card running to the end of the lines
PopulateCardsToEnd(ls) ==
    LET matches == Matches(ls, 0)
    IN  [match_idx \in 1..Len(matches) |->
            LET start_idx == matches[match_idx]
                label == Strip(LabelMatch(ls[start_idx + 1]))
            IN  BaseCard(label, CardLevel(label),
                         SubSeq(ls, start_idx + 1, Len(ls)),
                         start_idx, Len(ls))]

\* CardContainer._populate_cards: one card per match, up to the next match
\* or the end of the lines
PopulateCards(ls) ==
    LET matches == Matches(ls, 0)
    IN  [match_idx \in 1..Len(matches) |->
            LET start_idx == matches[match_idx]
                stop_idx == IF match_idx = Len(matches) THEN Len(ls)
                            ELSE matches[match_idx + 1]
                label == Strip(LabelMatch(ls[start_idx + 1]))
            IN  BaseCard(label, CardLevel(label),
                         SubSeq(ls, start_idx + 1, stop_idx),
                         start_idx, stop_idx)]

\* idx_list_too_wide_lines
IdxListTooWideLines(ls) ==
    {line_idx \in 0..(Len(ls) - 1) : ls[line_idx + 1].len <= LINE_LENGTH}

\* CardContainer.__post_init__: [err, cards]
ContainerPostInit(ls) ==
    IF Len(ls) = 0 THEN [err |-> "AssertionError", cards |-> <<>>]
    ELSE IF IdxListTooWideLines(ls) = {}
    THEN [err |-> "AssertionError", cards |-> <<>>]
    ELSE [err |-> NoErr, cards |-> PopulateCards(ls)]


(***************************************************************************)
(* FortranFormatBlock (fortran_format.py).  A registered card is its       *)
(* label, its class, its records, its expected_records and its             *)
(* _n_values_list.  parse_block hands every card the text of its own       *)
(* lines; the text of a block is abstracted to one pattern that the lines  *)
(* of every card hold.                                                     *)
(***************************************************************************)
BlockCard(label, type, recs, expected) ==
    [label |-> label, type |-> type, records |-> recs,
     expected_records |-> expected, n_values_list |-> <<>>]

\* self._result[label]: the mapping of a basic card or the list of mappings
\* of a repeated card
BasicEntry(res) == [multiple |-> FALSE, result |-> res, all_results |-> <<>>]
MultipleEntry(all) == [multiple |-> TRUE, result |-> EmptyDict, all_results |-> all]

\* the decoded value as _prepare_for_parse_card reads it from the store
StoredValue(v) == IF v.list THEN v.vals ELSE v.vals[1]

\* self._result as the previous_results of _prepare_for_parse_card; the
\* entry of a repeated card is a list, which has no keys
StoreOf(res) ==
    [l \in DOMAIN res |->
        IF res[l].multiple THEN EmptyDict
        ELSE [k \in DOMAIN res[l].result |-> StoredValue(res[l].result[k])]]

\* len([... for record in card.records if record.type == NEWLINE]) + 1
RECURSIVE NLines(_)
NLines(recs) ==
    IF recs = <<>> THEN 1
    ELSE (IF Head(recs).type = NEWLINE THEN 1 ELSE 0) + NLines(Tail(recs))

\* card._prepare_for_parse_card(self._result): [err, records,
\* n_values_list]
PrepareBlockCard(card, store) ==
    IF card.type = "basic"
    THEN BasicPrepare(card.records, store)
            @@ [n_values_list |-> card.n_values_list]
    ELSE MultiplePrepare(card.records, card.n_values_list, store,
                         get_n_cards_and_values_from,
                         repeated_record_for_cards,
                         repeated_record_for_values)

\* what one pass of the loop leaves: the exception, the card as it is now,
\* the entry for self._result and the lines taken
BlockCardOutcome(e, card, prep, entry, n_lines) ==
    [err |-> e,
     card |-> [card EXCEPT !.records = prep.records,
                           !.n_values_list = prep.n_values_list],
     entry |-> entry, n_lines |-> n_lines]

\* the rest of one pass of the loop, prep being what
\* _prepare_for_parse_card left: the lines of the card are counted and
\* self._result[label] = card.parse_card(card_data)
DecodeBlockCard(card, prep, block_data) ==
    LET basic == BasicParse(prep.records, card.expected_records,
                            ReaderRead(prep.records, block_data))
        multiple == MultipleParse(prep.records, card.expected_records,
                                  ReaderRead(prep.records, block_data),
                                  repeated_record_for_cards)
    IN  IF prep.err # NoErr
        THEN BlockCardOutcome(prep.err, card, prep, BasicEntry(EmptyDict), 0)
        ELSE IF card.type = "basic"
        THEN BlockCardOutcome(basic.err, card, prep,
                              BasicEntry(basic.result), NLines(prep.records))
        ELSE BlockCardOutcome(multiple.err, card, prep,
                              MultipleEntry(multiple.all_results),
                              NLines(prep.records))

\* one pass of the loop of parse_block: [err, card, entry, n_lines]
ParseBlockCard(card, res, block_data) ==
    DecodeBlockCard(card, PrepareBlockCard(card, StoreOf(res)), block_data)

\* the state of the loop after the pass over card i that left done
AfterBlockCard(loop, i, done) ==
    [err |-> done.err,
     cards |-> [loop.cards EXCEPT ![i] = done.card],
     result |-> IF done.err = NoErr
                THEN Put(loop.result, loop.cards[i].label, done.entry)
                ELSE loop.result,
     current_line |-> loop.current_line + done.n_lines]

\* the loop of parse_block over self._cards, from card i on: [err, cards,
\* result, current_line]
RECURSIVE ParseBlockLoop(_, _, _)
ParseBlockLoop(loop, i, block_data) ==
    IF i > Len(loop.cards) \/ loop.err # NoErr THEN loop
    ELSE ParseBlockLoop(
            AfterBlockCard(loop, i,
                ParseBlockCard(loop.cards[i], loop.result, block_data)),
            i + 1, block_data)

\* a cache guard that never finds a result
CacheHitNever(res) == FALSE

\* if self._result is not None: return self._result
CacheHit(res) == res.present

\* what parse_block leaves when its loop has ended in ran
AfterBlockLoop(ran) ==
    [err |-> ran.err, cards |-> ran.cards, result |-> Node(ran.result),
     returned |-> IF ran.err = NoErr THEN Node(ran.result) ELSE NoneNode]

\* FortranFormatBlock.parse_block: [err, cards, result, returned]; result is
\* self._result after the call and returned what the call returned
parse_block(cards, res, block_data) ==
    IF CacheHit(res)
    THEN [err |-> NoErr, cards |-> cards, result |-> res, returned |-> res]
    ELSE AfterBlockLoop(
            ParseBlockLoop([err |-> NoErr, cards |-> cards,
                            result |-> EmptyDict, current_line |-> 0],
                           1, block_data))

(***************************************************************************)
(* The state: one card of a block, one call of read_records, one assembly  *)
(* of a MATXS file, one card container and one block.  A behaviour runs    *)
(* one of them; the variables of the others stay as Init leaves them.      *)
(***************************************************************************)
VARIABLES
    card_type,          \* "basic" or "multiple": the card's class
    declared,           \* the records the card was constructed with
    records,            \* self.records
    expected_records,   \* self.expected_records
    n_values_list,      \* self._n_values_list (<<>> for None)
    previous_results,   \* the store _prepare_for_parse_card was given
    parsed_card,        \* what the reader returned to parse_card
    result,             \* what parse_card returned (basic card)
    all_results,        \* what parse_card returned (repeated card)
    err,                \* the exception the last call raised ("" for none)
    pc,                 \* "constructed", "prepared" or "prepare_raised",
                        \* "returned" or "parse_raised", "prepared_again"
                        \* or "prepare_again_raised"; "idle" when no card
    ff_records,         \* read_records: the records argument
    ff_data,            \* read_records: the data argument
    ff_expanded,        \* read_records: the local records it decodes with
    ff_parsed_card,     \* read_records: what the reader returned
    ff_results,         \* read_records: the dictionary it returned
    ff_err,             \* read_records: the exception it raised
    ff_pc,              \* "called", "returned" or "raised"; "idle"
    cards_pending,      \* len(card_container._cards)
    next_card_label,    \* the loop's local: the label last seen at the front
    consumed,           \* the labels of the cards popped so far, in order
    file_identification,
    file_control,
    set_hollerith_identification,
    file_data,
    particles,          \* the group_structure data of each particle
    materials,          \* the material_control data of each material
    m_err,              \* the exception consume_container raised
    m_pc,               \* "running", "returned" or "raised"; "idle"
    lines,              \* CardContainer: self.lines
    container_cards,    \* CardContainer: self._cards
    c_err,              \* the exception CardContainer(...) raised
    c_pc,               \* "called", "constructed" or "raised"; "idle"
    b_cards,            \* FortranFormatBlock: self._cards, in insertion order
    b_result,           \* FortranFormatBlock: self._result (NoneNode for None)
    b_returned,         \* what the last parse_block returned
    b_err,              \* the exception the last parse_block raised
    b_pc,               \* "constructed", "returned" or "raised"; "idle"
    b_calls             \* the number of parse_block calls made on the block

card_vars == <<card_type, declared, records, expected_records, n_values_list,
               previous_results, parsed_card, result, all_results, err, pc>>

ff_vars == <<ff_records, ff_data, ff_expanded, ff_parsed_card, ff_results,
             ff_err, ff_pc>>

matxs_vars == <<cards_pending, next_card_label, consumed, file_identification, file_control,
                set_hollerith_identification, file_data, particles, materials,
                m_err, m_pc>>

container_vars == <<lines, container_cards, c_err, c_pc>>

block_vars == <<b_cards, b_result, b_returned, b_err, b_pc, b_calls>>

vars == <<card_vars, ff_vars, matxs_vars, container_vars, block_vars>>

NoCard ==
    /\ card_type = "none"
    /\ declared = <<>>
    /\ records = <<>>
    /\ expected_records = EmptyDict
    /\ n_values_list = <<>>
    /\ previous_results = EmptyStore
    /\ parsed_card = <<>>
    /\ result = EmptyDict
    /\ all_results = <<>>
    /\ err = NoErr
    /\ pc = "idle"

NoReadRecords ==
    /\ ff_records = <<>>
    /\ ff_data = UniformText
    /\ ff_expanded = <<>>
    /\ ff_parsed_card = <<>>
    /\ ff_results = EmptyDict
    /\ ff_err = NoErr
    /\ ff_pc = "idle"

NoAssembly ==
    /\ cards_pending = 0
    /\ next_card_label = <<>>
    /\ consumed = <<>>
    /\ file_identification = NoneNode
    /\ file_control = NoneNode
    /\ set_hollerith_identification = NoneNode
    /\ file_data = NoneNode
    /\ particles = <<>>
    /\ materials = <<>>
    /\ m_err = NoErr
    /\ m_pc = "idle"

NoContainer ==
    /\ lines = <<>>
    /\ container_cards = <<>>
    /\ c_err = NoErr
    /\ c_pc = "idle"

NoBlock ==
    /\ b_cards = <<>>
    /\ b_result = NoneNode
    /\ b_returned = NoneNode
    /\ b_err = NoErr
    /\ b_pc = "idle"
    /\ b_calls = 0

\* the state after the card's constructor: FortranFormatBaseCard.__post_init__
\* runs for the basic card only (the repeated card overrides it)
InitCard ==
    /\ card_type \in {"basic", "multiple"}
    /\ declared \in DeclaredRecords
    /\ card_type = "basic" =>
            BaseCardPostInitOk(declared) /\ set_reader_ok(declared)
    /\ records = declared
    /\ expected_records \in ExpectedChoices
    /\ n_values_list = <<>>
    /\ previous_results = EmptyStore
    /\ parsed_card = <<>>
    /\ result = EmptyDict
    /\ all_results = <<>>
    /\ err = NoErr
    /\ pc = "constructed"
    /\ NoReadRecords
    /\ NoAssembly
    /\ NoContainer
    /\ NoBlock

\* a call of FFDataRecord.read_records about to run: every record has passed
\* FFDataRecord.__post_init__
InitReadRecords ==
    /\ ff_records \in FFRecordLists
    /\ \A i \in 1..Len(ff_records) : FFDataRecordPostInitOk(ff_records[i])
    /\ ff_data \in Texts
    /\ ff_expanded = <<>>
    /\ ff_parsed_card = <<>>
    /\ ff_results = EmptyDict
    /\ ff_err = NoErr
    /\ ff_pc = "called"
    /\ NoCard
    /\ NoAssembly
    /\ NoContainer
    /\ NoBlock

\* MATXSFile() and a card container of up to MaxCards cards
InitMatxs ==
    /\ cards_pending \in 0..MaxCards
    /\ next_card_label = <<>>
    /\ consumed = <<>>
    /\ file_identification = NoneNode
    /\ file_control = NoneNode
    /\ set_hollerith_identification = NoneNode
    /\ file_data = NoneNode
    /\ particles = <<>>
    /\ materials = <<>>
    /\ m_err = NoErr
    /\ m_pc = "running"
    /\ NoCard
    /\ NoReadRecords
    /\ NoContainer
    /\ NoBlock

Init == InitCard \/ InitReadRecords

\* card._prepare_for_parse_card(self._result) of a basic card
PrepareBasicCard ==
    /\ card_type = "basic"
    /\ pc = "constructed"
    /\ \E store \in BasicStores :
          LET out == BasicPrepare(records, store)
          IN  /\ previous_results' = store
              /\ records' = out.records
              /\ err' = out.err
              /\ pc' = IF out.err = NoErr THEN "prepared" ELSE "prepare_raised"
    /\ UNCHANGED <<card_type, declared, expected_records, n_values_list,
                   parsed_card, result, all_results>>
    /\ UNCHANGED <<ff_vars, matxs_vars, container_vars, block_vars>>

\* card._prepare_for_parse_card(self._result) of a repeated card
PrepareMultipleCard ==
    /\ card_type = "multiple"
    /\ pc = "constructed"
    /\ \E store \in MultipleStores :
          LET out == MultiplePrepare(records, n_values_list, store,
                                     get_n_cards_and_values_from,
                                     repeated_record_for_cards,
                                     repeated_record_for_values)
          IN  /\ previous_results' = store
              /\ records' = out.records
              /\ n_values_list' = out.n_values_list
              /\ err' = out.err
              /\ pc' = IF out.err = NoErr THEN "prepared" ELSE "prepare_raised"
    /\ UNCHANGED <<card_type, declared, expected_records,
                   parsed_card, result, all_results>>
    /\ UNCHANGED <<ff_vars, matxs_vars, container_vars, block_vars>>

\* card.parse_card(card_data) of a basic card
ParseBasicCard ==
    /\ card_type = "basic"
    /\ pc = "prepared"
    /\ \E card_data \in Texts :
          LET read == ReaderRead(records, card_data)
              out == BasicParse(records, expected_records, read)
          IN  /\ parsed_card' = read
              /\ result' = out.result
              /\ err' = out.err
              /\ pc' = IF out.err = NoErr THEN "returned" ELSE "parse_raised"
    /\ UNCHANGED <<card_type, declared, records, expected_records,
                   n_values_list, previous_results, all_results>>
    /\ UNCHANGED <<ff_vars, matxs_vars, container_vars, block_vars>>

\* card.parse_card(card_data) of a repeated card
ParseMultipleCard ==
    /\ card_type = "multiple"
    /\ pc = "prepared"
    /\ \E card_data \in Texts :
          LET read == ReaderRead(records, card_data)
              out == MultipleParse(records, expected_records, read,
                                   repeated_record_for_cards)
          IN  /\ parsed_card' = read
              /\ all_results' = out.all_results
              /\ err' = out.err
              /\ pc' = IF out.err = NoErr THEN "returned" ELSE "parse_raised"
    /\ UNCHANGED <<card_type, declared, records, expected_records,
                   n_values_list, previous_results, result>>
    /\ UNCHANGED <<ff_vars, matxs_vars, container_vars, block_vars>>

\* FFDataRecord.read_records(data, records)
ReadRecords ==
    /\ ff_pc = "called"
    /\ LET out == read_records(ff_data, ff_records)
       IN  /\ ff_expanded' = out.records
           /\ ff_parsed_card' = out.parsed_card
           /\ ff_results' = out.results
           /\ ff_err' = out.err
           /\ ff_pc' = IF out.err = NoErr THEN "returned" ELSE "raised"
    /\ UNCHANGED <<ff_records, ff_data>>
    /\ UNCHANGED <<card_vars, matxs_vars, container_vars, block_vars>>

Next ==
    \/ PrepareBasicCard
    \/ PrepareMultipleCard
    \/ ParseBasicCard
    \/ ParseMultipleCard
    \/ ReadRecords

Spec == Init /\ [][Next]_vars

(***************************************************************************)
(* MATXSFile.consume_container: one action per branch of the loop body.    *)
(* The card at the front of the container is read when the loop inspects   *)
(* it: its label and text are the action's inputs.  Every consume pops the *)
(* card before anything can fail.                                          *)
(***************************************************************************)
Looping == m_pc = "running" /\ cards_pending > 0

\* what every branch does to the container and the control state
Popped(label, e) ==
    /\ next_card_label' = label
    /\ cards_pending' = cards_pending - 1
    /\ consumed' = Append(consumed, label)
    /\ m_err' = e
    /\ m_pc' = IF e = NoErr THEN "running" ELSE "raised"

\* next_card_label == "0v"
ConsumeFileIdentification ==
    /\ Looping
    /\ \E card_data \in CardTexts :
          LET out == ConsumeCard(LABEL_0v, card_data, LABEL_0v, 0,
                                 FileIdentificationRecords)
          IN  /\ Popped(LABEL_0v, out.err)
              /\ file_identification' =
                    IF out.err = NoErr THEN Node(out.data)
                    ELSE file_identification
    /\ UNCHANGED <<file_control, set_hollerith_identification, file_data,
                   particles, materials>>
    /\ UNCHANGED <<card_vars, ff_vars, container_vars, block_vars>>

\* next_card_label == "1d"
ConsumeFileControl ==
    /\ Looping
    /\ \E card_data \in CardTexts :
          LET out == ConsumeCard(LABEL_1d, card_data, LABEL_1d, 1,
                                 FileControlRecords)
          IN  /\ Popped(LABEL_1d, out.err)
              /\ file_control' =
                    IF out.err = NoErr THEN Node(out.data) ELSE file_control
    /\ UNCHANGED <<file_identification, set_hollerith_identification,
                   file_data, particles, materials>>
    /\ UNCHANGED <<card_vars, ff_vars, container_vars, block_vars>>

\* next_card_label == "2d"
ConsumeSetHollerithIdentification ==
    /\ Looping
    /\ \E card_data \in CardTexts :
          LET out == ConsumeCard(LABEL_2d, card_data, LABEL_2d, 2,
                                 SetHollerithIdentificationRecords)
          IN  /\ Popped(LABEL_2d, out.err)
              /\ set_hollerith_identification' =
                    IF out.err = NoErr THEN Node(out.data)
                    ELSE set_hollerith_identification
    /\ UNCHANGED <<file_identification, file_control, file_data,
                   particles, materials>>
    /\ UNCHANGED <<card_vars, ff_vars, container_vars, block_vars>>

\* next_card_label == "3d"
ConsumeFileData ==
    /\ Looping
    /\ \E card_data \in CardTexts :
          LET out == ConsumeFileDataCard(LABEL_3d, card_data, file_control)
          IN  /\ Popped(LABEL_3d, out.err)
              /\ file_data' =
                    IF out.err = NoErr THEN Node(out.data) ELSE file_data
    /\ UNCHANGED <<file_identification, file_control,
                   set_hollerith_identification, particles, materials>>
    /\ UNCHANGED <<card_vars, ff_vars, container_vars, block_vars>>

\* next_card_label == "4d": self.particles.append(Particle.consume_container)
ConsumeParticle ==
    /\ Looping
    /\ \E card_data \in CardTexts :
          LET out == ConsumeGroupStructure(LABEL_4d, card_data, file_data,
                                           Len(particles))
          IN  /\ Popped(LABEL_4d, out.err)
              /\ particles' =
                    IF out.err = NoErr THEN Append(particles, out.data)
                    ELSE particles
    /\ UNCHANGED <<file_identification, file_control,
                   set_hollerith_identification, file_data, materials>>
    /\ UNCHANGED <<card_vars, ff_vars, container_vars, block_vars>>

\* next_card_label == "5d": self.materials.append(Material.consume_container)
ConsumeMaterial ==
    /\ Looping
    /\ \E card_data \in CardTexts :
          LET out == ConsumeMaterialControl(LABEL_5d, card_data, file_data,
                                            Len(materials))
          IN  /\ Popped(LABEL_5d, out.err)
              /\ materials' =
                    IF out.err = NoErr THEN Append(materials, out.data)
                    ELSE materials
    /\ UNCHANGED <<file_identification, file_control,
                   set_hollerith_identification, file_data, particles>>
    /\ UNCHANGED <<card_vars, ff_vars, container_vars, block_vars>>

\* the while condition is false: the container is empty
EndOfCards ==
    /\ m_pc = "running"
    /\ cards_pending = 0
    /\ m_pc' = "returned"
    /\ UNCHANGED <<cards_pending, next_card_label, consumed,
                   file_identification, file_control,
                   set_hollerith_identification, file_data, particles,
                   materials, m_err>>
    /\ UNCHANGED <<card_vars, ff_vars, container_vars, block_vars>>

\* the else branch: any other label at the front; the break leaves the loop
\* before the raise that follows it
BreakOnOtherLabel ==
    /\ Looping
    /\ \E label \in Labels \ {LABEL_0v, LABEL_1d, LABEL_2d, LABEL_3d,
                              LABEL_4d, LABEL_5d} :
          /\ next_card_label' = label
          /\ m_pc' = "returned"
    /\ UNCHANGED <<cards_pending, consumed, file_identification, file_control,
                   set_hollerith_identification, file_data, particles,
                   materials, m_err>>
    /\ UNCHANGED <<card_vars, ff_vars, container_vars, block_vars>>

NextMatxs ==
    \/ ConsumeFileIdentification
    \/ ConsumeFileControl
    \/ ConsumeSetHollerithIdentification
    \/ ConsumeFileData
    \/ ConsumeParticle
    \/ ConsumeMaterial
    \/ EndOfCards
    \/ BreakOnOtherLabel

SpecMatxs == InitMatxs /\ [][NextMatxs]_vars

(***************************************************************************)
(* CardContainer(lines): the construction of a card container.             *)
(***************************************************************************)
\* the lines a container is built from: a 0v, a 1d or a 10d label line, a
\* line that lacks the blank after the label, or a data line; each
\* LINE_LENGTH characters long or one more
LineHeads ==
    { <<" ", "0", "v", " ">>, <<" ", "1", "d", " ">>, <<"1", "0", "d", " ">>,
      <<" ", "1", "d", "x">>, <<" ", " ", "1", ".">> }

Lines == { Line(h, n) : h \in LineHeads, n \in {LINE_LENGTH, LINE_LENGTH + 1} }

\* sequences over S of length at most n
RECURSIVE SeqsUpTo(_, _)
SeqsUpTo(S, n) ==
    IF n = 0 THEN {<<>>}
    ELSE LET shorter == SeqsUpTo(S, n - 1)
         IN  shorter \cup
             { Append(q, x) : q \in {t \in shorter : Len(t) = n - 1}, x \in S }

\* the argument of the constructor, before it runs
InitContainer ==
    /\ lines \in SeqsUpTo(Lines, MaxLines)
    /\ container_cards = <<>>
    /\ c_err = NoErr
    /\ c_pc = "called"
    /\ NoCard
    /\ NoReadRecords
    /\ NoAssembly
    /\ NoBlock

\* CardContainer.__post_init__, _populate_cards included
ConstructCardContainer ==
    /\ c_pc = "called"
    /\ LET out == ContainerPostInit(lines)
       IN  /\ container_cards' = out.cards
           /\ c_err' = out.err
           /\ c_pc' = IF out.err = NoErr THEN "constructed" ELSE "raised"
    /\ UNCHANGED lines
    /\ UNCHANGED <<card_vars, ff_vars, matxs_vars, block_vars>>

NextContainer == ConstructCardContainer

SpecContainer == InitContainer /\ [][NextContainer]_vars

(***************************************************************************)
(* FortranFormatBlock: add_card and parse_block.                           *)
(***************************************************************************)
\* the cards a block registers: 1d decodes npart and expects its title, 3d
\* decodes npart values of ngrp, 4d repeats over ngrp, 5d defers a count to
\* its own label
BlockCards ==
    { BlockCard("1d", "basic",
                << TitleRecord,
                   FortranFormatCardRecord("npart", I6, SCALAR, NoFrom) >>,
                [title |-> TitleLiteral]),
      BlockCard("3d", "basic",
                << TitleRecord,
                   FortranFormatCardRecord("ngrp", I6, ARRAY,
                                           <<"1d", "npart">>) >>,
                EmptyDict),
      BlockCard("4d", "multiple",
                << TitleRecord,
                   FortranFormatCardRecord("gpb", E12_5, ARRAY, NoFrom) >>,
                EmptyDict),
      BlockCard("5d", "basic",
                << TitleRecord,
                   FortranFormatCardRecord("nsubm", I6, ARRAY,
                                           <<"5d", "nsubm">>) >>,
                EmptyDict) }

\* FortranFormatBlock()
InitBlock ==
    /\ b_cards = <<>>
    /\ b_result = NoneNode
    /\ b_returned = NoneNode
    /\ b_err = NoErr
    /\ b_pc = "constructed"
    /\ b_calls = 0
    /\ NoCard
    /\ NoReadRecords
    /\ NoAssembly
    /\ NoContainer

\* block.add_card(label, card) with a label the block does not hold yet (a
\* label it holds raises ValueError and changes nothing)
AddCard ==
    /\ b_pc # "idle"
    /\ Len(b_cards) < MaxBlockCards
    /\ \E card \in BlockCards :
          /\ \A i \in 1..Len(b_cards) : b_cards[i].label # card.label
          /\ b_cards' = Append(b_cards, card)
    /\ UNCHANGED <<b_result, b_returned, b_err, b_pc, b_calls>>
    /\ UNCHANGED <<card_vars, ff_vars, matxs_vars, container_vars>>

\* block.parse_block(block_data), up to MaxCalls calls on one block
ParseBlock ==
    /\ b_pc # "idle"
    /\ b_calls < MaxCalls
    /\ b_calls' = b_calls + 1
    /\ \E block_data \in Texts :
          \E out \in {parse_block(b_cards, b_result, block_data)} :
             /\ b_cards' = out.cards
             /\ b_result' = out.result
             /\ b_returned' = out.returned
             /\ b_err' = out.err
             /\ b_pc' = IF out.err = NoErr THEN "returned" ELSE "raised"
    /\ UNCHANGED <<card_vars, ff_vars, matxs_vars, container_vars>>

NextBlock ==
    \/ AddCard
    \/ ParseBlock

SpecBlock == InitBlock /\ [][NextBlock]_vars

(***************************************************************************)
(* A second _prepare_for_parse_card on a card that has been through it,    *)
(* with the store of the first.                                            *)
(***************************************************************************)
\* card._prepare_for_parse_card(previous_results) again, basic card
PrepareBasicCardAgain ==
    /\ card_type = "basic"
    /\ pc = "prepared"
    /\ LET out == BasicPrepare(records, previous_results)
       IN  /\ records' = out.records
           /\ err' = out.err
           /\ pc' = IF out.err = NoErr THEN "prepared_again"
                    ELSE "prepare_again_raised"
    /\ UNCHANGED <<card_type, declared, expected_records, n_values_list,
                   previous_results, parsed_card, result, all_results>>
    /\ UNCHANGED <<ff_vars, matxs_vars, container_vars, block_vars>>

\* card._prepare_for_parse_card(previous_results) again, repeated card
PrepareMultipleCardAgain ==
    /\ card_type = "multiple"
    /\ pc = "prepared"
    /\ LET out == MultiplePrepare(records, n_values_list, previous_results,
                                  get_n_cards_and_values_from,
                                  repeated_record_for_cards,
                                  repeated_record_for_values)
       IN  /\ records' = out.records
           /\ n_values_list' = out.n_values_list
           /\ err' = out.err
           /\ pc' = IF out.err = NoErr THEN "prepared_again"
                    ELSE "prepare_again_raised"
    /\ UNCHANGED <<card_type, declared, expected_records, previous_results,
                   parsed_card, result, all_results>>
    /\ UNCHANGED <<ff_vars, matxs_vars, container_vars, block_vars>>

NextReprepare ==
    \/ PrepareBasicCard
    \/ PrepareMultipleCard
    \/ PrepareBasicCardAgain
    \/ PrepareMultipleCardAgain

SpecReprepare == InitCard /\ [][NextReprepare]_vars

(***************************************************************************)
(* Vocabulary of the claims.                                               *)
(***************************************************************************)
\* _prepare_for_parse_card has returned normally
Prepared == pc \in {"prepared", "returned", "parse_raised"}

\* the repeat count a format states (1 when it states none)
FormatCount(format) ==
    LET d == LeadingDigits(format)
    IN  IF d = 0 THEN 1 ELSE StrToInt(SubSeq(format, 1, d))

\* the digits of s from position i on, up to the first non-digit
RECURSIVE DigitRun(_, _)
DigitRun(s, i) ==
    IF i > Len(s) \/ ~IsDigit(s[i]) THEN <<>> ELSE <<s[i]>> \o DigitRun(s, i + 1)

\* the characters one value of the format occupies in the line: w of Aw, Iw
\* and Ew.d, one column for X, none for /
FieldWidth(format) ==
    LET body == StripLeadingDigits(format)
    IN  IF body = <<>> THEN 0
        ELSE IF body[1] \in DataLetters THEN StrToInt(DigitRun(body, 2))
        ELSE IF body[1] = "X" THEN 1
        ELSE 0

\* the characters a record occupies in the line
RecordWidth(record) ==
    IF record.type = NEWLINE THEN 0
    ELSE FormatCount(record.format) * FieldWidth(record.format)

\* the widest line of a record sequence: <<widest so far, current line>>
RECURSIVE LineWidths(_, _, _, _)
LineWidths(recs, i, widest, current) ==
    IF i > Len(recs) THEN IF current > widest THEN current ELSE widest
    ELSE IF recs[i].type = NEWLINE
         THEN LineWidths(recs, i + 1,
                         IF current > widest THEN current ELSE widest, 0)
    ELSE LineWidths(recs, i + 1, widest, current + RecordWidth(recs[i]))

WidestLine(recs) == LineWidths(recs, 1, 0, 0)

\* the widest line as the reflow counts it (get_n_values x get_chars_per_value)
RECURSIVE CountedLineWidths(_, _, _, _)
CountedLineWidths(recs, i, widest, current) ==
    IF i > Len(recs) THEN IF current > widest THEN current ELSE widest
    ELSE IF recs[i].type = NEWLINE
         THEN CountedLineWidths(recs, i + 1,
                                IF current > widest THEN current ELSE widest, 0)
    ELSE CountedLineWidths(recs, i + 1, widest,
            current + get_n_values(recs[i]) * get_chars_per_value(recs[i]))

\* C1: after _prepare_for_parse_card, when every declared field is at most
\* 72 characters wide per value, no line of the prepared descriptors is
\* wider than 72 characters (the sum of count x width between line breaks).
C1_LinesWithinLimit ==
    (Prepared /\ \A i \in 1..Len(declared) :
                    FieldWidth(declared[i].format) <= MAX_LINE_LENGTH)
        => WidestLine(records) <= MAX_LINE_LENGTH

\* auxiliary: the same bound with the widths the reflow itself counts
CountedLinesWithinLimit ==
    Prepared => CountedLineWidths(records, 1, 0, 0) <= MAX_LINE_LENGTH

\* the number of records of a sequence that carry key k
RECURSIVE KeyCount(_, _)
KeyCount(recs, k) ==
    IF recs = <<>> THEN 0
    ELSE (IF Head(recs).key = k THEN 1 ELSE 0) + KeyCount(Tail(recs), k)

\* the values the records of key k declare in total (get_n_values)
RECURSIVE DeclaredUnder(_, _)
DeclaredUnder(recs, k) ==
    IF recs = <<>> THEN 0
    ELSE (IF Head(recs).key = k THEN get_n_values(Head(recs)) ELSE 0)
         + DeclaredUnder(Tail(recs), k)

\* the values declared by the records before position i that parse_card
\* does not skip
RECURSIVE ValuesBefore(_, _)
ValuesBefore(recs, i) ==
    IF i <= 1 THEN 0
    ELSE ValuesBefore(recs, i - 1)
         + (IF recs[i - 1].type \in {NEWLINE, EMPTY} THEN 0
            ELSE get_n_values(recs[i - 1]))

\* the declared records of a basic card with their deferred counts resolved
\* and no field split
WholeRecords == ResolveBasic(declared, 1, previous_results).records

\* C2: when reflow has split an array field of n values into unit
\* descriptors, the result of parse_card holds under the field's key all n
\* values of the field in their order, as if the field had not been split.
C2_SplitFieldReassembled ==
    (card_type = "basic" /\ pc = "returned") =>
        \A i \in 1..Len(WholeRecords) :
            LET field == WholeRecords[i]
                n == get_n_values(field)
                before == ValuesBefore(WholeRecords, i)
            IN  (field.type = ARRAY /\ KeyCount(records, field.key) > 1) =>
                    /\ field.key \in DOMAIN result
                    /\ result[field.key] =
                         ListValue(SubSeq(parsed_card, before + 1, before + n))

\* C3: for a basic card, after _prepare_for_parse_card(store), a field
\* declared with get_n_values_from = (L, k) where store[L][k] = n >= 1
\* declares n values in total under its key, no record carries a deferral
\* any more, and a field declared without deferral keeps its count.
C3_DeferredCountsResolved ==
    (card_type = "basic" /\ Prepared) =>
        /\ \A j \in 1..Len(records) : records[j].get_n_values_from = NoFrom
        /\ \A i \in 1..Len(declared) :
              LET d == declared[i]
                  from == d.get_n_values_from
              IN  IF from # NoFrom
                  THEN previous_results[from[1]][from[2]] >= 1 =>
                          DeclaredUnder(records, d.key)
                              = previous_results[from[1]][from[2]]
                  ELSE d.type # NEWLINE =>
                          DeclaredUnder(records, d.key) = get_n_values(d)

\* C3's case: a deferred field of n >= 2 values, resolved and then split
\* into n units by the reflow
C3_Witness ==
    /\ card_type = "basic"
    /\ Prepared
    /\ \E i \in 1..Len(declared) :
          /\ declared[i].get_n_values_from = <<"1d", "npart">>
          /\ previous_results["1d"]["npart"] >= 2
          /\ KeyCount(records, declared[i].key)
                = previous_results["1d"]["npart"]

\* C8: a repeated card over [n_1, ..., n_K] decodes to K mappings, the i-th
\* holding n_i values under the key of the per-repetition value field, for
\* every n_i >= 1.
C8_OneMappingPerRepetition ==
    (card_type = "multiple" /\ pc = "returned") =>
        /\ Len(all_results) = Len(n_values_list)
        /\ \A i \in 1..Len(n_values_list) :
              n_values_list[i] >= 1 =>
                  /\ repeated_record_for_values \in DOMAIN all_results[i]
                  /\ Len(all_results[i][repeated_record_for_values].vals)
                        = n_values_list[i]


\* the values the records that parse_card does not skip declare in total
RECURSIVE DeclaredValues(_)
DeclaredValues(recs) ==
    IF recs = <<>> THEN 0
    ELSE (IF Head(recs).type \in {NEWLINE, EMPTY} THEN 0
          ELSE get_n_values(Head(recs)))
         + DeclaredValues(Tail(recs))

\* the values the records that read_records does not skip declare in total
RECURSIVE FFDeclaredValues(_)
FFDeclaredValues(recs) ==
    IF recs = <<>> THEN 0
    ELSE (IF Head(recs).type \in {EMPTY, DECIMAL_SHIFT} THEN 0
          ELSE Head(recs).count)
         + FFDeclaredValues(Tail(recs))

\* C4: parse_card (either card) and read_records return normally only when
\* the reader produced exactly as many values as the descriptors that are
\* not skip, decimal-shift or line-break descriptors declare in total.
C4_ValueCountConserved ==
    /\ pc = "returned" => Len(parsed_card) = DeclaredValues(records)
    /\ ff_pc = "returned" =>
            Len(ff_parsed_card) = FFDeclaredValues(ff_expanded)

\* C4's case: a card of several values decoded, the reader's count matching
C4_Witness ==
    /\ pc = "returned"
    /\ Len(parsed_card) >= 3
    /\ \E i \in 1..Len(records) : records[i].type = EMPTY

\* the rank of a label in the grammar 0v, 1d, 2d, 3d, 4d*, 5d*
GrammarRank(label) ==
    CASE label = LABEL_0v -> 1
      [] label = LABEL_1d -> 2
      [] label = LABEL_2d -> 3
      [] label = LABEL_3d -> 4
      [] label = LABEL_4d -> 5
      [] label = LABEL_5d -> 6
      [] OTHER -> 7

\* the labels follow the grammar order: ranks rise, only 4d and 5d repeat
InGrammarOrder(labels) ==
    \A i \in 1..(Len(labels) - 1) :
        \/ GrammarRank(labels[i]) < GrammarRank(labels[i + 1])
        \/ labels[i] = labels[i + 1] /\ labels[i] \in {LABEL_4d, LABEL_5d}

\* C5: consume_container assembles a stream (returns with every card
\* consumed) only when the labels it consumed are in the grammar order
\* 0v, 1d, 2d, 3d, then 4d cards, then 5d cards.
C5_OnlyGrammarOrderAssembled ==
    (m_pc = "returned" /\ cards_pending = 0) => InGrammarOrder(consumed)

\* C6: consume_container never returns normally while cards are pending.
C6_NoReturnWhilePending ==
    m_pc = "returned" => cards_pending = 0

\* copy i of the declared records of a repeated card: the value field with
\* count n_i, a deferred field with its stored count
RepetitionCopy(i) ==
    [j \in 1..Len(declared) |->
        LET d == declared[j]
        IN  IF d.key = repeated_record_for_values
            THEN FortranFormatCardRecord(d.key,
                    IntToStr(n_values_list[i]) \o d.format, d.type, NoFrom)
            ELSE IF d.get_n_values_from # NoFrom
            THEN FortranFormatCardRecord(d.key,
                    IntToStr(previous_results[d.get_n_values_from[1]]
                                             [d.get_n_values_from[2]])
                        \o d.format,
                    d.type, NoFrom)
            ELSE d]

\* copies i..K, a line break after each but the last
RECURSIVE CopiesFrom(_)
CopiesFrom(i) ==
    IF i > Len(n_values_list) THEN <<>>
    ELSE RepetitionCopy(i)
         \o (IF i < Len(n_values_list) THEN <<NewlineRecord>> ELSE <<>>)
         \o CopiesFrom(i + 1)

\* C7 as stated: the prepared records of a repeated card over [n_1..n_K]
\* are the K copies of the declared records, the value field of copy i with
\* count n_i, a line break after each of the first K-1 copies and none
\* after the last.
C7_PreparedIsCopies ==
    (card_type = "multiple" /\ Prepared) => records = CopiesFrom(1)

\* C7 amended: the prepared records of a repeated card are the line reflow
\* of those K copies; they are the K copies themselves whenever no line of
\* the copies is wider than 72 characters as the reflow counts them.
C7_PreparedIsReflowedCopies ==
    (card_type = "multiple" /\ Prepared) =>
        /\ records = Reflow(CopiesFrom(1)).records
        /\ CountedLineWidths(CopiesFrom(1), 1, 0, 0) <= MAX_LINE_LENGTH
              => records = CopiesFrom(1)

\* C7's case: two repetitions with different counts, prepared
C7_Witness ==
    /\ card_type = "multiple"
    /\ Prepared
    /\ Len(n_values_list) >= 2
    /\ n_values_list[1] # n_values_list[2]
    /\ records = CopiesFrom(1)

\* the values declared before position i by the records read_records does
\* not skip
RECURSIVE FFValuesBefore(_, _)
FFValuesBefore(recs, i) ==
    IF i <= 1 THEN 0
    ELSE FFValuesBefore(recs, i - 1)
         + (IF recs[i - 1].type \in {EMPTY, DECIMAL_SHIFT} THEN 0
            ELSE recs[i - 1].count)

\* C9: for m >= 1 contiguous TABLE records of r >= 1 rows each,
\* read_records decodes m x r values row by row and stores under the key of
\* column c the r values at offsets c, m + c, 2m + c, ... of the group.
C9_TableRowMajor ==
    LET tables == TableRecordIndices(ff_records)
        m == Cardinality(tables)
        first == FirstTable(ff_records)
        r == ff_records[first].table_rows
        before == FFValuesBefore(ff_records, first)
    IN  (/\ ff_pc = "returned"
         /\ m >= 1
         /\ tables = first..(first + m - 1)
         /\ \A i \in tables : ff_records[i].table_rows = r
         /\ r >= 1) =>
            /\ Len(ff_parsed_card)
                  = FFDeclaredValues(ff_records) - m + m * r
            /\ \A c \in 1..m :
                  LET k == ff_records[first + c - 1].key
                  IN  /\ k \in DOMAIN ff_results
                      /\ ff_results[k] =
                            ListValue([j \in 1..r |->
                                ff_parsed_card[before + (j - 1) * m + c]])

\* C10: parse_card returns normally only when the result (every
\* repetition's mapping for a repeated card) holds each key of
\* expected_records with the expected value; when it raises, no result is
\* returned.
C10_ExpectedRecordsChecked ==
    /\ (card_type = "basic" /\ pc = "returned") =>
            \A key \in DOMAIN expected_records :
                /\ key \in DOMAIN result
                /\ result[key] = expected_records[key]
    /\ (card_type = "multiple" /\ pc = "returned") =>
            \A r \in 1..Len(all_results) :
                \A key \in DOMAIN expected_records :
                    /\ key \in DOMAIN all_results[r]
                    /\ all_results[r][key] = expected_records[key]
    /\ pc = "parse_raised" => result = EmptyDict /\ all_results = <<>>

\* C10's case: a repeated card of two repetitions returned with an expected
\* title
C10_Witness ==
    /\ card_type = "multiple"
    /\ pc = "returned"
    /\ expected_records # EmptyDict
    /\ Len(all_results) >= 2

(***************************************************************************)
(* The card container.                                                     *)
(***************************************************************************)
\* the line at index line_idx (from 0) bears a label
Labelled(line_idx) == LabelMatch(lines[line_idx + 1]) # <<>>

\* the indices of the labelled lines
LabelledLines == {line_idx \in 0..(Len(lines) - 1) : Labelled(line_idx)}

\* the cards whose range holds the line at line_idx
CardsHolding(line_idx) ==
    {i \in 1..Len(container_cards) :
        /\ container_cards[i].start_idx <= line_idx
        /\ line_idx < container_cards[i].stop_idx}

\* C11: the segmenter produces the cards in file order; the range of each
\* card starts at the line bearing its label and ends just before the next
\* labelled line, or at the end of the input for the last card; the ranges
\* of consecutive cards are adjacent and disjoint, and every line from the
\* first labelled line on belongs to exactly one card.
C11_CardsPartitionLines ==
    c_pc = "constructed" =>
        LET n == Len(container_cards)
        IN  /\ n = Cardinality(LabelledLines)
            /\ \A i \in 1..n :
                  LET card == container_cards[i]
                  IN  /\ card.start_idx \in LabelledLines
                      /\ card.label = Strip(LabelMatch(lines[card.start_idx + 1]))
                      /\ card.start_idx < card.stop_idx
                      /\ \A line_idx \in (card.start_idx + 1)..(card.stop_idx - 1) :
                            ~Labelled(line_idx)
                      /\ card.stop_idx = Len(lines) \/ card.stop_idx \in LabelledLines
                      /\ card.data = SubSeq(lines, card.start_idx + 1, card.stop_idx)
            /\ \A i \in 1..(n - 1) :
                  container_cards[i].stop_idx = container_cards[i + 1].start_idx
            /\ n > 0 => container_cards[n].stop_idx = Len(lines)
            /\ \A line_idx \in 0..(Len(lines) - 1) :
                  Cardinality(CardsHolding(line_idx)) =
                     IF \E first \in LabelledLines : first <= line_idx
                     THEN 1 ELSE 0

\* a container of two cards or more, the first of them with a data line
\* after its label line
C11_Witness ==
    /\ c_pc = "constructed"
    /\ Len(container_cards) >= 2
    /\ container_cards[1].stop_idx - container_cards[1].start_idx >= 2

\* C12: constructing a container from lines of which any one is longer than
\* LINE_LENGTH fails, and no cards are produced.
C12_WideLineRefused ==
    (c_pc # "called" /\ \E i \in 1..Len(lines) : lines[i].len > LINE_LENGTH) =>
        (c_pc = "raised" /\ container_cards = <<>>)

(***************************************************************************)
(* The block.                                                              *)
(***************************************************************************)
\* the labels whose results the card reads when it is prepared
ReferencedLabels(card) ==
    { card.records[i].get_n_values_from[1] :
        i \in {j \in 1..Len(card.records) :
                 card.records[j].get_n_values_from # NoFrom} }
    \cup (IF card.type = "multiple" /\ card.n_values_list = <<>>
          THEN {get_n_cards_and_values_from[1]} ELSE {})

\* card i of the block reads a label that no card before it carries: its
\* own, that of a later card, or one that is not registered
ForwardReference(cards, i) ==
    \E l \in ReferencedLabels(cards[i]) :
        \A j \in 1..(i - 1) : cards[j].label # l

\* the entries of the store (none while the store is None)
Decoded(res) == IF res.present THEN DOMAIN res.data ELSE {}

\* C13: when parse_block runs its loop over a block with a card whose
\* deferred count or card-group count reads a label that is not decoded
\* before it (its own label or a later card's included), the call raises;
\* it raises KeyError at that card's resolution if every card before it was
\* decoded, and the store gets no entry for that card.
C13_ForwardReferenceFails ==
    [][(ParseBlock /\ ~CacheHit(b_result)) =>
         \A i \in 1..Len(b_cards) :
            ForwardReference(b_cards, i) =>
               /\ b_pc' = "raised"
               /\ b_cards[i].label \notin Decoded(b_result')
               /\ (\A j \in 1..(i - 1) : b_cards[j].label \in Decoded(b_result'))
                     => b_err' = "KeyError"]_vars

\* parse_block raised KeyError at a card that reads its own or a later
\* label, after it decoded a card before it
C13_Witness ==
    /\ b_pc = "raised"
    /\ b_err = "KeyError"
    /\ \E i \in 2..Len(b_cards) :
          /\ ForwardReference(b_cards, i)
          /\ b_cards[i].label \notin Decoded(b_result)
          /\ \A j \in 1..(i - 1) : b_cards[j].label \in Decoded(b_result)

\* C15: whenever parse_block returns normally, on any call, the store it
\* returns holds an entry for every registered card.
C15_ReturnedStoreComplete ==
    [][(ParseBlock /\ b_pc' = "returned") =>
         \A i \in 1..Len(b_cards') : b_cards'[i].label \in Decoded(b_returned')]_vars

\* C17: once a parse_block call has returned, a further call, whatever
\* text it is given, returns the same store and leaves the store and the
\* records of every registered card as they were.
C17_SecondCallIsCached ==
    [][(ParseBlock /\ b_pc = "returned") =>
         /\ b_pc' = "returned"
         /\ b_returned' = b_returned
         /\ b_result' = b_result
         /\ b_returned' = b_result
         /\ b_cards' = b_cards]_vars

\* a block of two cards or more, the repeated card among them, all decoded,
\* on which parse_block has been called again after the call that decoded
\* them
C17_Witness ==
    /\ b_pc = "returned"
    /\ b_calls >= 2
    /\ Len(b_cards) >= 2
    /\ \E i \in 1..Len(b_cards) : b_cards[i].type = "multiple"
    /\ \A i \in 1..Len(b_cards) : b_cards[i].label \in Decoded(b_returned)

(***************************************************************************)
(* The assembly: what a card needs decoded before it, and the entries.     *)
(***************************************************************************)
\* the step raised and appended no particle and no material
RejectedWithoutNode ==
    /\ m_pc' = "raised"
    /\ m_err' # NoErr
    /\ particles' = particles
    /\ materials' = materials

\* C14: consume_container fails when a 4d card reaches the front before a
\* 3d card has been decoded, when a 3d card does before a 1d card, and when
\* a 5d card does before a 3d card; no particle and no material is appended
\* for that card.
C14_CountCardsFirst ==
    [][/\ (ConsumeParticle /\ ~file_data.present) => RejectedWithoutNode
       /\ (ConsumeMaterial /\ ~file_data.present) => RejectedWithoutNode
       /\ (ConsumeFileData /\ ~file_control.present) =>
             (RejectedWithoutNode /\ ~file_data'.present)]_vars

\* a 4d card was taken from the front after another card and before any 3d
\* card, and consume_container raised with no particle appended
C14_Witness ==
    /\ m_pc = "raised"
    /\ m_err = "AttributeError"
    /\ Len(consumed) >= 2
    /\ consumed[Len(consumed)] = LABEL_4d
    /\ \A i \in 1..Len(consumed) : consumed[i] # LABEL_3d
    /\ ~file_data.present
    /\ particles = <<>>

\* the entry of a section stays as it is once it is written
WrittenOnce(entry, entry_after) == entry.present => entry_after = entry

\* C16: within one assembly the entry stored for 0v, 1d, 2d and 3d is
\* written at most once: once it exists no later card replaces it.
C16_EntriesWrittenOnce ==
    [][/\ WrittenOnce(file_identification, file_identification')
       /\ WrittenOnce(file_control, file_control')
       /\ WrittenOnce(set_hollerith_identification, set_hollerith_identification')
       /\ WrittenOnce(file_data, file_data')]_vars

(***************************************************************************)
(* Preparing a card twice.                                                 *)
(***************************************************************************)
\* the second pass succeeded and left self.records as they were
SecondPassIsNoOp == pc' = "prepared_again" /\ records' = records

\* C18: _prepare_for_parse_card run again with the same store on a card
\* that has been through it, basic or repeated, succeeds and leaves the
\* records identical.
C18_ReprepareIsNoOp ==
    [][(PrepareBasicCardAgain \/ PrepareMultipleCardAgain) => SecondPassIsNoOp]_vars

\* the same for the basic card alone
BasicReprepareIsNoOp ==
    [][PrepareBasicCardAgain => SecondPassIsNoOp]_vars

\* a repeated card never gets through a second pass
MultipleReprepareRaises ==
    [][PrepareMultipleCardAgain => pc' = "prepare_again_raised"]_vars

(***************************************************************************)
(* The reflow keeps the fields.                                            *)
(***************************************************************************)
\* the records the reflow of the card was started with: the declared
\* records with their counts resolved, copied per repetition in a repeated
\* card
ResolvedRecords == IF card_type = "basic" THEN WholeRecords ELSE CopiesFrom(1)

\* recs without its line-break records
RECURSIVE WithoutNewlines(_)
WithoutNewlines(recs) ==
    IF recs = <<>> THEN <<>>
    ELSE (IF Head(recs).type = NEWLINE THEN <<>> ELSE <<Head(recs)>>)
         \o WithoutNewlines(Tail(recs))

\* unit is one value of field: same key, same kind, same edit descriptor,
\* count 1
IsUnitOf(unit, field) ==
    /\ unit.key = field.key
    /\ unit.type = field.type
    /\ StripLeadingDigits(unit.format) = StripLeadingDigits(field.format)
    /\ LeadingDigits(unit.format) > 0
    /\ FormatCount(unit.format) = 1

\* packed is fields, each field either as it is or as count-many units of
\* it, in the same order
RECURSIVE SameFields(_, _)
SameFields(packed, fields) ==
    IF fields = <<>> THEN packed = <<>>
    ELSE LET field == Head(fields)
             n == FormatCount(field.format)
         IN  \/ /\ packed # <<>>
                /\ Head(packed) = field
                /\ SameFields(Tail(packed), Tail(fields))
             \/ /\ Len(packed) >= n
                /\ \A j \in 1..n : IsUnitOf(packed[j], field)
                /\ SameFields(SubSeq(packed, n + 1, Len(packed)), Tail(fields))

\* every count of the records is 1 or more
CountsAtLeastOne(recs) ==
    \A i \in 1..Len(recs) :
        recs[i].type # NEWLINE => FormatCount(recs[i].format) >= 1

\* C19: for resolved records whose counts are all 1 or more, the prepared
\* records without their line breaks are the resolved fields in their
\* order, each one whole or as units of count 1 that carry its key and kind
\* and are as many as its count.
C19_ReflowKeepsFields ==
    (Prepared /\ CountsAtLeastOne(ResolvedRecords)) =>
        SameFields(WithoutNewlines(records), WithoutNewlines(ResolvedRecords))

\* a prepared card one of whose fields, of two values or more, was split
\* into units
C19_Witness ==
    /\ Prepared
    /\ CountsAtLeastOne(ResolvedRecords)
    /\ \E i \in 1..Len(ResolvedRecords) :
          LET field == ResolvedRecords[i]
          IN  /\ field.type = ARRAY
              /\ FormatCount(field.format) >= 2
              /\ KeyCount(records, field.key) >= 2
              /\ \A j \in 1..Len(records) :
                    records[j].key = field.key => IsUnitOf(records[j], field)

\* C20: get_chars_per_value is the number of characters one value of the
\* field occupies in the line: w for Aw and Iw, and w, not d, for Ew.d; so
\* it is for every field of a card that has been through the reflow.
C20_CharsPerValueIsWidth ==
    Prepared =>
        \A i \in 1..Len(records) :
            records[i].type \in {SCALAR, ARRAY} =>
                get_chars_per_value(records[i]) = FieldWidth(records[i].format)

\* the same for the text and integer fields alone
CharsPerValueIsWidthOfAwIw ==
    Prepared =>
        \A i \in 1..Len(records) :
            (/\ records[i].type \in {SCALAR, ARRAY}
             /\ StripLeadingDigits(records[i].format)[1] \in {"A", "I"}) =>
                get_chars_per_value(records[i]) = FieldWidth(records[i].format)

(***************************************************************************)
(* The count of a resolved field.                                          *)
(***************************************************************************)
\* C21: for a resolved array or skip field whose format states the count
\* n, get_n_values is n for every n >= 0, the n = 0 that a stored value of 0
\* resolves to included; so it is for every such field of a card that has
\* been through _prepare_for_parse_card.
C21_CountIsFormatCount ==
    Prepared =>
        \A i \in 1..Len(records) :
            (/\ records[i].type \in {ARRAY, EMPTY}
             /\ LeadingDigits(records[i].format) > 0) =>
                get_n_values(records[i]) = FormatCount(records[i].format)

\* the same for the fields whose format states a count of 1 or more
CountIsFormatCountFromOne ==
    Prepared =>
        \A i \in 1..Len(records) :
            (/\ records[i].type \in {ARRAY, EMPTY}
             /\ LeadingDigits(records[i].format) > 0
             /\ FormatCount(records[i].format) >= 1) =>
                get_n_values(records[i]) = FormatCount(records[i].format)

(***************************************************************************)
(* The assembly: the nodes and the stored counts.                          *)
(***************************************************************************)
\* the count stored under key k of a decoded section
StoredCount(section, k) == section.data[k].vals[1]

\* no more particles than the stored npart and no more materials than the
\* stored nmat (none of either while no file control is stored)
NodesWithinCounts ==
    IF file_control.present
    THEN /\ Len(particles) <= StoredCount(file_control, "npart")
         /\ Len(materials) <= StoredCount(file_control, "nmat")
    ELSE particles = <<>> /\ materials = <<>>

\* a 4d card that is accepted is decoded with the group count the stored
\* file data holds at the particle's index, and a 5d card with the row
\* count it holds at the material's index
DecodedWithStoredCount ==
    /\ particles' # particles =>
          /\ file_data.present
          /\ particles' = Append(particles, particles'[Len(particles')])
          /\ Len(particles'[Len(particles')]["gpb"].vals)
                = file_data.data["ngrp"].vals[Len(particles) + 1]
    /\ materials' # materials =>
          /\ file_data.present
          /\ materials' = Append(materials, materials'[Len(materials')])
          /\ Len(materials'[Len(materials')]["temp"].vals)
                = file_data.data["nsubm"].vals[Len(materials) + 1]

\* C22: in every state of an assembly the particles are no more than the
\* npart and the materials no more than the nmat of the stored file
\* control, and the i-th accepted 4d card is decoded with ngrp[i] and the
\* i-th accepted 5d card with nsubm[i] of the stored file data.
C22_NodesFollowStoredCounts ==
    [](m_pc # "idle" => NodesWithinCounts) /\ [][DecodedWithStoredCount]_vars

\* the second half alone: how the accepted cards are decoded
AcceptedCardsUseStoredCount == [][DecodedWithStoredCount]_vars

=============================================================================
